---- MODULE Spec2Model ----
(***************************************************************************)
(* Model of the Touken Ranbu repair calculator (src/src/script.ts).        *)
(*                                                                         *)
(* Numbers.  The calculator computes in IEEE doubles.  Every quantity it   *)
(* rounds is modelled here by its exact value:                             *)
(*   - a weapon coefficient is a multiple of 0.5 and is carried doubled    *)
(*     (coefficient2 = 2 * coefficient);                                   *)
(*   - the bloom cubic g(level) has decimal constants with at most 13      *)
(*     fractional digits and is carried in units of 10^-13;                *)
(*   - a resource base is sqrt(x) with x a two-decimal literal and is      *)
(*     carried as the integer 100 * x under the radical.                   *)
(* Intermediate values exceed 32 bits, so they are held as wide integers   *)
(* of three base-10^8 limbs (Fix...).  Math.round is floor(x + 1/2).       *)
(***************************************************************************)
EXTENDS Integers, Sequences, FiniteSets, TLC

\* ------------------------------------------------------------------------
\* Exact arithmetic beyond 32 bits
\* ------------------------------------------------------------------------
\* A wide integer is [hi, mid, lo] of value hi * 10^16 + mid * 10^8 + lo with
\* 0 <= mid, lo < 10^8; hi carries the sign.
TenTo4 == 100 * 100

TenTo8 == TenTo4 * TenTo4

Max(a, b) == IF a >= b THEN a ELSE b

Min(a, b) == IF a <= b THEN a ELSE b

\* The wide integer h * 10^16 + m * 10^8 + l, for any integers h, m, l.
FixNorm(h, m, l) ==
    LET m1 == m + (l \div TenTo8)
    IN  [hi |-> h + (m1 \div TenTo8), mid |-> m1 % TenTo8, lo |-> l % TenTo8]

FixFromInt(n) == FixNorm(0, 0, n)

FixAdd(x, y) == FixNorm(x.hi + y.hi, x.mid + y.mid, x.lo + y.lo)

FixSub(x, y) == FixNorm(x.hi - y.hi, x.mid - y.mid, x.lo - y.lo)

\* a * b for 0 <= a, b < 10^8, as carry * 10^8 + rem.
MulLimb(a, b) ==
    LET a1 == a \div TenTo4
        a0 == a % TenTo4
        b1 == b \div TenTo4
        b0 == b % TenTo4
        cross == a1 * b0 + a0 * b1
        low == a0 * b0 + (cross % TenTo4) * TenTo4
    IN  [carry |-> a1 * b1 + (cross \div TenTo4) + (low \div TenTo8),
         rem |-> low % TenTo8]

\* x * n for an integer 0 <= n < 10^8.
FixMulInt(x, n) ==
    LET pl == MulLimb(x.lo, n)
        pm == MulLimb(x.mid, n)
    IN  FixNorm(x.hi * n + pm.carry, pm.rem + pl.carry, pl.rem)

\* x <= y
FixLeq(x, y) ==
    IF x.hi # y.hi THEN x.hi < y.hi
    ELSE IF x.mid # y.mid THEN x.mid < y.mid
    ELSE x.lo <= y.lo

\* floor(x / 10^12)
FixFloorDivTenTo12(x) == x.hi * TenTo4 + (x.mid \div TenTo4)

\* ------------------------------------------------------------------------
\* JavaScript numeric primitives, on exact values
\* ------------------------------------------------------------------------
\* Mutant of MathRoundHalves: the half is dropped (Math.floor for Math.round).
MathRoundHalvesDown(n2) == n2 \div 2

\* Math.round of n2 / 2: the nearest integer, a tie going up.
MathRoundHalves(n2) == (n2 + 1) \div 2

RECURSIVE FloorSqrtIn(_, _, _)
\* The r with r * r <= n < (r + 1) * (r + 1), given lo * lo <= n < hi * hi.
FloorSqrtIn(n, lo, hi) ==
    IF hi - lo <= 1 THEN lo
    ELSE LET half == (lo + hi) \div 2
         IN  IF half * half <= n THEN FloorSqrtIn(n, half, hi)
             ELSE FloorSqrtIn(n, lo, half)

\* Math.floor(Math.sqrt(n)) for an integer 0 <= n < 2^31 (46341^2 > 2^31).
FloorSqrt(n) == FloorSqrtIn(n, 0, Min(n + 1, 46341))

RECURSIVE FloorSqrtTenTo4In(_, _, _)
\* The r with r * r <= 10^4 * n < (r + 1) * (r + 1), given
\* lo * lo <= 10^4 * n < hi * hi; the squares are compared as wide integers.
FloorSqrtTenTo4In(n, lo, hi) ==
    IF hi - lo <= 1 THEN lo
    ELSE LET half == (lo + hi) \div 2
         IN  IF FixLeq(FixMulInt(FixFromInt(half), half),
                       FixMulInt(FixFromInt(n), TenTo4))
             THEN FloorSqrtTenTo4In(n, half, hi)
             ELSE FloorSqrtTenTo4In(n, lo, half)

\* A square root is held by its radicand: Root(x100) stands for
\* sqrt(x100 / 100), and milli = floor(1000 * sqrt(x100 / 100)) brackets it.
Root(x100) ==
    [radicand100 |-> x100,
     milli |-> FloorSqrtTenTo4In(x100, 0, 100 * (FloorSqrt(x100) + 1))]

\* Whether n - 1/2 <= root * k / 2, i.e. 20 n - 10 <= k * sqrt(radicand100).
RootReaches(root, k, n) ==
    \/ n <= 0
    \/ FixLeq(FixMulInt(FixFromInt(20 * n - 10), 20 * n - 10),
              FixMulInt(FixMulInt(FixFromInt(root.radicand100), k), k))

\* Math.round(root * k / 2) for k >= 0: the integer n with
\* n - 1/2 <= root * k / 2 < n + 1/2.  The value lies between
\* milli / 1000 * k / 2 and (milli + 1) / 1000 * k / 2, less than 1 apart for
\* k < 2000, so n is the rounding of one of the two, least or most = least + 1.
MathRoundRoot(root, k) ==
    LET least == (k * root.milli + 1000) \div 2000
        most == (k * (root.milli + 1) + 1000) \div 2000
    IN  IF most > least /\ RootReaches(root, k, most) THEN most ELSE least

\* 10^13 as a wide integer: the bloom cubic is carried in units of 10^-13.
TenTo13 == FixNorm(0, 10 * TenTo4, 0)

\* Math.round of x / (2 * 10^13) for a wide x: floor((x + 10^13) / (2 * 10^13)),
\* the division done by 10^12 and then by 20 (floors compose).
MathRoundScaled(x) == FixFloorDivTenTo12(FixAdd(x, TenTo13)) \div 20

\* ------------------------------------------------------------------------
\* Strings: a string is the sequence of its characters
\* ------------------------------------------------------------------------
\* The radical sign U+221A, which a TLA+ string cannot hold.
RADICAL == "radical"

Digits == <<"0", "1", "2", "3", "4", "5", "6", "7", "8", "9">>

IsDigit(c) == \E d \in 1..10 : Digits[d] = c

DigitValue(c) == (CHOOSE d \in 1..10 : Digits[d] = c) - 1

\* String.prototype.replace(c, ""): the first occurrence of c removed.
RemoveFirst(str, c) ==
    IF \E i \in 1..Len(str) : str[i] = c
    THEN LET at == CHOOSE i \in 1..Len(str) :
                       str[i] = c /\ \A j \in 1..(i - 1) : str[j] # c
         IN  SubSeq(str, 1, at - 1) \o SubSeq(str, at + 1, Len(str))
    ELSE str

RECURSIVE TrimStart(_)
TrimStart(str) ==
    IF str # <<>> /\ Head(str) = " " THEN TrimStart(Tail(str)) ELSE str

RECURSIVE TrimEnd(_)
TrimEnd(str) ==
    IF str # <<>> /\ str[Len(str)] = " "
    THEN TrimEnd(SubSeq(str, 1, Len(str) - 1)) ELSE str

\* String.prototype.trim()
StringTrim(str) == TrimEnd(TrimStart(str))

RECURSIVE LeadingDigits(_)
\* The number of digits str starts with.
LeadingDigits(str) ==
    IF str # <<>> /\ IsDigit(Head(str)) THEN 1 + LeadingDigits(Tail(str)) ELSE 0

RECURSIVE DigitsValue(_, _)
\* The value of the digit string str appended to the value acc.
DigitsValue(str, acc) ==
    IF str = <<>> THEN acc
    ELSE DigitsValue(Tail(str), 10 * acc + DigitValue(Head(str)))

\* A parsed number: NaN, or a value in hundredths.
NaN == [isNaN |-> TRUE, hundredths |-> 0]

Hundredths(n) == [isNaN |-> FALSE, hundredths |-> n]

\* Number.parseFloat on an unsigned decimal: the longest prefix of the form
\* digits [. digits] is read, and NaN is returned when it holds no digit.
\* The tables hold at most two fractional digits; further ones are not read.
parseFloat(str) ==
    LET whole == LeadingDigits(str)
        rest == SubSeq(str, whole + 1, Len(str))
        fraction ==
            IF rest # <<>> /\ Head(rest) = "." THEN LeadingDigits(Tail(rest)) ELSE 0
        fractionDigits == SubSeq(rest, 2, 1 + Min(fraction, 2))
        padded == fractionDigits \o SubSeq(<<"0", "0">>, 1, 2 - Len(fractionDigits))
    IN  IF whole + fraction = 0 THEN NaN
        ELSE Hundredths(100 * DigitsValue(SubSeq(str, 1, whole), 0)
                            + DigitsValue(padded, 0))

RECURSIVE NatToString(_)
\* Number.prototype.toString() of an integer n >= 0.
NatToString(n) ==
    IF n < 10 THEN <<Digits[n + 1]>>
    ELSE NatToString(n \div 10) \o <<Digits[(n % 10) + 1]>>

RECURSIVE PadStart(_, _, _)
\* String.prototype.padStart(targetLength, fill) for a one-character fill.
PadStart(str, targetLength, fill) ==
    IF Len(str) >= targetLength THEN str
    ELSE PadStart(<<fill>> \o str, targetLength, fill)

RECURSIVE Join(_, _)
\* Array.prototype.join(separator) for a one-character separator.
Join(parts, separator) ==
    IF parts = <<>> THEN <<>>
    ELSE IF Len(parts) = 1 THEN parts[1]
    ELSE parts[1] \o <<separator>> \o Join(Tail(parts), separator)

\* ------------------------------------------------------------------------
\* Master data
\* ------------------------------------------------------------------------
WeaponKey ==
    {"tantou", "wakizashi", "uchigatana", "uchigatana_rare4", "tachi",
     "ootachi", "yari", "naginata", "tsurugi"}

StageKey == {"initial", "awakened"}

PhaseKey == {"initial", "awakened", "bloom"}

\* coefficient2 is twice the catalog's coefficient (1.0, 1.5, 2.0, 4.0, ...).
weaponCatalog ==
    [tantou           |-> [label |-> "tantou",           coefficient2 |-> 2],
     wakizashi        |-> [label |-> "wakizashi",        coefficient2 |-> 3],
     uchigatana       |-> [label |-> "uchigatana",       coefficient2 |-> 4],
     uchigatana_rare4 |-> [label |-> "uchigatana_rare3", coefficient2 |-> 8],
     tachi            |-> [label |-> "tachi",            coefficient2 |-> 8],
     ootachi          |-> [label |-> "ootachi",          coefficient2 |-> 12],
     yari             |-> [label |-> "yari",             coefficient2 |-> 5],
     naginata         |-> [label |-> "naginata",         coefficient2 |-> 6],
     tsurugi          |-> [label |-> "tsurugi",          coefficient2 |-> 7]]

\* Mutant of stageMaxLevels: the initial stage given the range of awakened.
stageMaxLevelsOfAwakened == [initial |-> 199, awakened |-> 199]

stageMaxLevels == [initial |-> 99, awakened |-> 199]

INJURY_MAX == 150

resourceBaseExpressions ==
    [ tantou |->
        [charcoal  |-> <<RADICAL, "1", "6">>,
         steel     |-> <<RADICAL, "1", "6">>,
         coolant   |-> <<RADICAL, "1", "6">>,
         whetstone |-> <<RADICAL, "1", "6">>],
     wakizashi |->
        [charcoal  |-> <<RADICAL, "1", "1">>,
         steel     |-> <<RADICAL, "1", "6">>,
         coolant   |-> <<RADICAL, "7">>,
         whetstone |-> <<RADICAL, "1", "1">>],
     uchigatana |->
        [charcoal  |-> <<RADICAL, "1", "2", ".", "2", "5">>,
         steel     |-> <<RADICAL, "1", "2", ".", "2", "5">>,
         coolant   |-> <<RADICAL, "4", ".", "3", "4">>,
         whetstone |-> <<RADICAL, "1", "2", ".", "2", "5">>],
     uchigatana_rare4 |->
        [charcoal  |-> <<RADICAL, "3", ".", "0", "6">>,
         steel     |-> <<RADICAL, "9">>,
         coolant   |-> <<RADICAL, "9">>,
         whetstone |-> <<RADICAL, "1", ".", "5", "6">>],
     tachi |->
        [charcoal  |-> <<RADICAL, "3", ".", "0", "6">>,
         steel     |-> <<RADICAL, "8", ".", "7", "5">>,
         coolant   |-> <<RADICAL, "8", ".", "7", "5">>,
         whetstone |-> <<RADICAL, "1", ".", "6", "7">>],
     ootachi |->
        [charcoal  |-> <<RADICAL, "1", ".", "3", "6">>,
         steel     |-> <<RADICAL, "5", ".", "4", "4">>,
         coolant   |-> <<RADICAL, "5", ".", "4", "4">>,
         whetstone |-> <<RADICAL, "0", ".", "6", "9">>],
     yari |->
        [charcoal  |-> <<RADICAL, "3", "1", ".", "3", "6">>,
         steel     |-> <<RADICAL, "3", "1", ".", "3", "6">>,
         coolant   |-> <<RADICAL, "7", ".", "8", "4">>,
         whetstone |-> <<RADICAL, "3", "1", ".", "3", "6">>],
     naginata |->
        [charcoal  |-> <<RADICAL, "2", "5">>,
         steel     |-> <<RADICAL, "2", "5">>,
         coolant   |-> <<RADICAL, "6", ".", "2", "5">>,
         whetstone |-> <<RADICAL, "2", "5">>],
     tsurugi |->
        [charcoal  |-> <<RADICAL, "9">>,
         steel     |-> <<RADICAL, "9">>,
         coolant   |-> <<RADICAL, "9">>,
         whetstone |-> <<RADICAL, "9">>]]

stageWeaponMap ==
    [initial  |-> <<"tantou", "wakizashi", "uchigatana", "uchigatana_rare4",
                    "tachi", "ootachi", "yari", "naginata", "tsurugi">>,
     awakened |-> <<"tantou", "wakizashi", "uchigatana", "uchigatana_rare4",
                    "tachi", "ootachi", "yari", "naginata">>]

phaseLabels == [initial |-> "sho", awakened |-> "kiwame", bloom |-> "kiwame-kaika"]

resourceKinds == <<"charcoal", "steel", "coolant", "whetstone">>

ResourceKind == {resourceKinds[i] : i \in 1..Len(resourceKinds)}

\* Mutant of parseInnerRoot: the number is read with parseInt, which drops
\* its fraction.
parseInnerRootOfInteger(expression) ==
    LET sanitized == StringTrim(RemoveFirst(expression, RADICAL))
        numericValue == parseFloat(SubSeq(sanitized, 1, LeadingDigits(sanitized)))
    IN  IF numericValue.isNaN
        THEN [error |-> "Invalid resource expression", expression |-> expression]
        ELSE Root(numericValue.hundredths)

\* The error parseInnerRoot throws.
InvalidResourceExpression(expression) ==
    [error |-> "Invalid resource expression", expression |-> expression]

\* "radical 16" read as sqrt(16).
parseInnerRoot(expression) ==
    LET sanitized == StringTrim(RemoveFirst(expression, RADICAL))
        numericValue == parseFloat(sanitized)
    IN  IF numericValue.isNaN THEN InvalidResourceExpression(expression)
        ELSE Root(numericValue.hundredths)

\* The square roots, cached up front.
precomputedResourceBases ==
    [w \in DOMAIN resourceBaseExpressions |->
        [kind \in ResourceKind |-> parseInnerRoot(resourceBaseExpressions[w][kind])]]

\* Object.keys(resourceBaseExpressions): the keys in the order they are written.
resourceBaseKeys ==
    <<"tantou", "wakizashi", "uchigatana", "uchigatana_rare4", "tachi",
      "ootachi", "yari", "naginata", "tsurugi">>

\* The two nested reduce calls that build precomputedResourceBases from a
\* table of expressions: parseInnerRoot is applied weapon by weapon, kind by
\* kind, and the first error it throws leaves the reduce and is the outcome.
reduceResourceBases(expressions) ==
    LET kinds == Len(resourceKinds)
        calls == Len(resourceBaseKeys) * kinds
        weaponAt(i) == resourceBaseKeys[((i - 1) \div kinds) + 1]
        kindAt(i) == resourceKinds[((i - 1) % kinds) + 1]
        parsed == [i \in 1..calls |->
                      parseInnerRoot(expressions[weaponAt(i)][kindAt(i)])]
        throwing == {i \in 1..calls : "error" \in DOMAIN parsed[i]}
    IN  IF throwing # {}
        THEN parsed[CHOOSE i \in throwing : \A j \in throwing : i <= j]
        ELSE [w \in {resourceBaseKeys[i] : i \in 1..Len(resourceBaseKeys)} |->
                 [kind \in ResourceKind |->
                     parsed[CHOOSE i \in 1..calls :
                                weaponAt(i) = w /\ kindAt(i) = kind]]]

\* The doubled coefficients of the catalog.
CatalogCoefficients2 == {weaponCatalog[w].coefficient2 : w \in WeaponKey}

\* ------------------------------------------------------------------------
\* Formulas
\* ------------------------------------------------------------------------
\* Mutant of determinePhase: bloom only above level 100.
determinePhaseAbove100(level, stage) ==
    IF level > 100 THEN "bloom"
    ELSE IF stage = "awakened" THEN "awakened" ELSE "initial"

determinePhase(level, stage) ==
    IF level >= 100 THEN "bloom"
    ELSE IF stage = "awakened" THEN "awakened" ELSE "initial"

\* The cubic's constants in units of 10^-13.
bloomC0 == FixNorm(0, 33932540, 80000000)          \* 339.325408

bloomC1 == FixNorm(0, 558961, 13000000)            \* 5.5896113

bloomC2 == FixNorm(0, 0 - 3864, 0 - 52486000)      \* -0.0386452486

bloomC3 == FixNorm(0, 8, 29599381)                 \* 0.0000829599381

\* g(level) in units of 10^-13, summed in the order of the source.
bloomG(level) ==
    LET levelSquared == level * level
        levelCubed == levelSquared * level
    IN  FixAdd(
            FixAdd(
                FixAdd(bloomC0, FixMulInt(bloomC1, level)),
                FixMulInt(bloomC2, levelSquared)),
            FixMulInt(bloomC3, levelCubed))

\* Mutant of aTermOf: the term already applies at level 11.
aTermOfFrom11(level) == IF level < 11 THEN 0 ELSE FloorSqrt(level - 11) * 10 + 50

\* Math.floor(Math.sqrt(level - 11)) * 10 + 50 above level 11.
aTermOf(level) == IF level <= 11 THEN 0 ELSE FloorSqrt(level - 11) * 10 + 50

\* The two formulas of calculateRepairSeconds for lostHp > 0.
repairFormula(level, lostHp, coefficient2, phase) ==
    IF phase = "bloom"
    THEN LET \* g * coefficient * lostHp + 30, in units of 10^-13 / 2
             repaired ==
                 FixAdd(
                     FixMulInt(FixMulInt(bloomG(level), coefficient2), lostHp),
                     FixMulInt(TenTo13, 2 * 30))
         IN  Max(30, MathRoundScaled(repaired))
    ELSE LET aTerm == aTermOf(level)
             \* (level * 5 + aTerm) * coefficient * lostHp + 30, in halves
             repaired2 == (level * 5 + aTerm) * coefficient2 * lostHp + 2 * 30
         IN  Max(30, MathRoundHalves(repaired2))

\* Mutant of calculateRepairSeconds: no injury takes no time.
calculateRepairSecondsNoMinimum(level, lostHp, coefficient2, phase) ==
    IF lostHp <= 0 THEN 0
    ELSE repairFormula(level, lostHp, coefficient2, phase)

\* Mutant of calculateRepairSeconds: the remaining HP taken for the lost HP.
calculateRepairSecondsOfRemainingHp(level, lostHp, coefficient2, phase) ==
    IF lostHp <= 0 THEN 30
    ELSE repairFormula(level, INJURY_MAX - lostHp, coefficient2, phase)

calculateRepairSeconds(level, lostHp, coefficient2, phase) ==
    IF lostHp <= 0 THEN 30
    ELSE repairFormula(level, lostHp, coefficient2, phase)

\* The linear bloom formula of the compiled public/script.js, in units of 10^-13.
publicBloomG(level) ==
    FixSub(FixNorm(0, 62924070, 0),                      \* 629.2407
           FixMulInt(FixNorm(0, 26406, 60000000), level)) \* 0.264066 * level

\* calculateRepairSeconds as compiled into public/script.js.
publicCalculateRepairSeconds(level, lostHp, coefficient2, phase) ==
    IF lostHp <= 0 THEN 30
    ELSE IF phase = "bloom"
    THEN LET repaired ==
                 FixAdd(
                     FixMulInt(FixMulInt(publicBloomG(level), coefficient2), lostHp),
                     FixMulInt(TenTo13, 2 * 30))
         IN  Max(30, MathRoundScaled(repaired))
    ELSE LET aTerm == aTermOf(level)
             repaired2 == (level * 5 + aTerm) * coefficient2 * lostHp + 2 * 30
         IN  Max(30, MathRoundHalves(repaired2))

\* Mutant of calculateResourceCost: the coefficient left out of the product.
calculateResourceCostNoCoefficient(weaponKey, lostHp, coefficient2) ==
    IF lostHp <= 0
    THEN [charcoal |-> 0, steel |-> 0, coolant |-> 0, whetstone |-> 0]
    ELSE LET base == precomputedResourceBases[weaponKey]
         IN  [kind \in ResourceKind |->
                 Max(0, MathRoundRoot(base[kind], 2 * lostHp))]

\* Mutant of calculateResourceCost: the injury raised to at least 1.
calculateResourceCostAtLeastOne(weaponKey, lostHp, coefficient2) ==
    LET base == precomputedResourceBases[weaponKey]
    IN  [kind \in ResourceKind |->
            Max(0, MathRoundRoot(base[kind], coefficient2 * Max(1, lostHp)))]

\* The error a property read of undefined throws.
TypeError(message) == [error |-> "TypeError", message |-> message]

\* lostHp > 0 and coefficient2 > 0 are what the callers pass; the product
\* base * coefficient * lostHp is then positive and Math.max(0, ...) keeps it.
\* For a key the table does not hold base is undefined, and base[kind] throws.
calculateResourceCost(weaponKey, lostHp, coefficient2) ==
    IF lostHp <= 0
    THEN [charcoal |-> 0, steel |-> 0, coolant |-> 0, whetstone |-> 0]
    ELSE IF weaponKey \notin DOMAIN precomputedResourceBases
    THEN TypeError("Cannot read properties of undefined")
    ELSE LET base == precomputedResourceBases[weaponKey]
         IN  [kind \in ResourceKind |->
                 LET value == MathRoundRoot(base[kind], coefficient2 * lostHp)
                 IN  Max(0, value)]

\* A reference to a ResourceSet object the script has allocated: its place
\* among memory.objects.
Allocated(place) == [allocated |-> place]

\* Mutant of calculateResourceCostIn: one object is kept for the result and
\* is written again by every call.
calculateResourceCostInReused(mem, weaponKey, lostHp, coefficient2) ==
    LET cost == IF lostHp <= 0
                THEN [charcoal |-> 0, steel |-> 0, coolant |-> 0, whetstone |-> 0]
                ELSE [kind \in ResourceKind |->
                         Max(0, MathRoundRoot(mem.precomputedResourceBases[weaponKey][kind],
                                              coefficient2 * lostHp))]
    IN  IF mem.objects = <<>>
        THEN [memory |-> [mem EXCEPT !.objects = <<cost>>], returned |-> Allocated(1)]
        ELSE [memory |-> [mem EXCEPT !.objects[1] = cost], returned |-> Allocated(1)]

\* calculateResourceCost with the objects it touches: the bases are read
\* from the table held in memory; the result is the object of the literal
\* at lines 371-376, or the {} that reduce is started with, each allocated
\* by the call, and the writes accumulator[kind] = ... go to that object.
calculateResourceCostIn(mem, weaponKey, lostHp, coefficient2) ==
    LET place == Len(mem.objects) + 1
    IN  IF lostHp <= 0
        THEN [memory |->
                  [mem EXCEPT !.objects =
                      Append(@, [charcoal |-> 0, steel |-> 0,
                                 coolant |-> 0, whetstone |-> 0])],
              returned |-> Allocated(place)]
        ELSE LET base == mem.precomputedResourceBases[weaponKey]
             IN  [memory |->
                      [mem EXCEPT !.objects =
                          Append(@, [kind \in ResourceKind |->
                                        Max(0, MathRoundRoot(base[kind],
                                                             coefficient2 * lostHp))])],
                  returned |-> Allocated(place)]

\* Mutant of formatSeconds: the hours wrapped at a day.
formatSecondsWrapped(seconds2) ==
    LET clamped == Max(30, MathRoundHalves(seconds2))
        hours == (clamped \div 3600) % 24
        minutes == (clamped % 3600) \div 60
        seconds == clamped % 60
        segments == <<hours, minutes, seconds>>
    IN  Join([i \in 1..3 |-> PadStart(NatToString(segments[i]), 2, "0")], ":")

\* seconds2 is twice totalSeconds.
formatSeconds(seconds2) ==
    LET clamped == Max(30, MathRoundHalves(seconds2))
        hours == clamped \div 3600
        minutes == (clamped % 3600) \div 60
        seconds == clamped % 60
        segments == <<hours, minutes, seconds>>
    IN  Join([i \in 1..3 |-> PadStart(NatToString(segments[i]), 2, "0")], ":")

clamp(value, lower, upper) == Min(Max(value, lower), upper)

\* The calculation of updateOutputs for a weapon of the catalog and the
\* clamped level and injury: phase, seconds, cost and the time shown.
calculate(weaponKey, stageKey, level, injury) ==
    LET coefficient2 == weaponCatalog[weaponKey].coefficient2
        phase == determinePhase(level, stageKey)
        repairSeconds == calculateRepairSeconds(level, injury, coefficient2, phase)
        resourceCost == calculateResourceCost(weaponKey, injury, coefficient2)
    IN  [phase |-> phase,
         repairSeconds |-> repairSeconds,
         resourceCost |-> resourceCost,
         phaseDisplay |-> phaseLabels[phase],
         timeOutput |-> formatSeconds(2 * repairSeconds)]

\* ------------------------------------------------------------------------
\* The page: the elements of const cache and the handlers bound to them
\* ------------------------------------------------------------------------
\* Array.prototype.includes
Includes(array, element) == \E i \in 1..Len(array) : array[i] = element

\* Number.prototype.toString() of an integer.
IntToString(n) == IF n < 0 THEN <<"-">> \o NatToString(0 - n) ELSE NatToString(n)

NaNInteger == [isNaN |-> TRUE, value |-> 0]

\* Number.parseInt(str, 10): blanks are skipped, a sign is read, then the
\* longest run of digits; NaN when there is no digit.
parseInt(str) ==
    LET trimmed == TrimStart(str)
        signed == trimmed # <<>> /\ Head(trimmed) \in {"-", "+"}
        body == IF signed THEN Tail(trimmed) ELSE trimmed
        count == LeadingDigits(body)
        magnitude == DigitsValue(SubSeq(body, 1, count), 0)
    IN  IF count = 0 THEN NaNInteger
        ELSE [isNaN |-> FALSE,
              value |-> IF signed /\ Head(trimmed) = "-" THEN 0 - magnitude
                        ELSE magnitude]

\* parsed || fallback: NaN and 0 are falsy.
OrElse(parsed, fallback) ==
    IF parsed.isNaN \/ parsed.value = 0 THEN fallback ELSE parsed.value

\* A select element is its options, each a value and a text, and its value;
\* the value is that of the selected option, "" when none is selected.
\* document.createElement("option") with its value and textContent set.
Option(value, textContent) == [value |-> value, textContent |-> textContent]

\* The values of the options of a select, in their order.
OptionValues(select) == [i \in 1..Len(select.options) |-> select.options[i].value]

\* select.innerHTML = "": no option is left.
SelectClear(select) == [select EXCEPT !.options = <<>>, !.value = ""]

\* select.append(option): while no option is selected, the option that comes
\* first is.
SelectAppend(select, option) ==
    [select EXCEPT !.options = @ \o <<option>>,
                   !.value = IF select.value = "" THEN option.value ELSE @]

\* select.value = value: the option of that value is selected, none when
\* there is no such option.
SelectSetValue(select, value) ==
    [select EXCEPT
        !.value = IF Includes(OptionValues(select), value) THEN value ELSE ""]

RECURSIVE SelectAppendAll(_, _)
\* array.forEach(option => select.append(option))
SelectAppendAll(select, array) ==
    IF array = <<>> THEN select
    ELSE SelectAppendAll(SelectAppend(select, Head(array)), Tail(array))

stageLabels == [initial |-> "sho", awakened |-> "kiwame"]

\* Object.keys(stageLabels)
stageLabelKeys == <<"initial", "awakened">>

\* The options made of the keys of an array, with their texts from a table
\* of labels.
stageOptions(keys) == [i \in 1..Len(keys) |-> Option(keys[i], stageLabels[keys[i]])]

weaponOptions(keys) ==
    [i \in 1..Len(keys) |-> Option(keys[i], weaponCatalog[keys[i]].label)]

\* Object.keys(weaponCatalog)
weaponCatalogKeys ==
    <<"tantou", "wakizashi", "uchigatana", "uchigatana_rare4", "tachi",
      "ootachi", "yari", "naginata", "tsurugi">>

\* stageWeaponMap[stage] ?? Object.keys(weaponCatalog)
allowedAt(stage) ==
    IF stage \in DOMAIN stageWeaponMap THEN stageWeaponMap[stage]
    ELSE weaponCatalogKeys

populateStageOptions(c) ==
    [c EXCEPT !.stageSelect =
                  SelectAppendAll(SelectClear(@), stageOptions(stageLabelKeys))]

\* Mutant of populateWeaponOptions: every weapon of the catalog is offered,
\* whatever the stage.
populateWeaponOptionsOfCatalog(c, stage) ==
    LET allowed == weaponCatalogKeys
        previousSelection == c.weaponSelect.value
        rendered == SelectAppendAll(SelectClear(c.weaponSelect), weaponOptions(allowed))
        restored == IF Includes(allowed, previousSelection)
                    THEN SelectSetValue(rendered, previousSelection)
                    ELSE rendered
        settled == IF ~Includes(allowed, restored.value) /\ Len(allowed) > 0
                   THEN SelectSetValue(restored, allowed[1])
                   ELSE restored
    IN  [c EXCEPT !.weaponSelect = settled]

\* Mutant of populateWeaponOptions: the previous selection is not restored.
populateWeaponOptionsResetting(c, stage) ==
    LET allowed == allowedAt(stage)
        rendered == SelectAppendAll(SelectClear(c.weaponSelect), weaponOptions(allowed))
        settled == IF ~Includes(allowed, rendered.value) /\ Len(allowed) > 0
                   THEN SelectSetValue(rendered, allowed[1])
                   ELSE rendered
    IN  [c EXCEPT !.weaponSelect = settled]

populateWeaponOptions(c, stage) ==
    LET allowed == allowedAt(stage)
        previousSelection == c.weaponSelect.value
        rendered == SelectAppendAll(SelectClear(c.weaponSelect), weaponOptions(allowed))
        restored == IF Includes(allowed, previousSelection)
                    THEN SelectSetValue(rendered, previousSelection)
                    ELSE rendered
        settled == IF ~Includes(allowed, restored.value) /\ Len(allowed) > 0
                   THEN SelectSetValue(restored, allowed[1])
                   ELSE restored
    IN  [c EXCEPT !.weaponSelect = settled]

\* The last lines of updateOutputs: the results are shown. What is left is
\* the elements, and what was passed to the calculators.
showOutputs(c, stage, weapon, rawLevel, level, rawInjury, injury, outputs) ==
    [cache |->
         [c EXCEPT
             !.phaseDisplay = outputs.phaseDisplay,
             !.timeOutput = outputs.timeOutput,
             !.resourceOutputs =
                 [kind \in ResourceKind |-> NatToString(outputs.resourceCost[kind])]],
     passed |->
         [weapon |-> weapon, stage |-> stage,
          rawLevel |-> rawLevel, level |-> level,
          rawInjury |-> rawInjury, injury |-> injury,
          coefficient2 |-> weaponCatalog[weapon].coefficient2,
          phase |-> outputs.phase,
          repairSeconds |-> outputs.repairSeconds,
          resourceCost |-> outputs.resourceCost]]

\* Mutant of clampInputs: the level is not clamped from above.
clampInputsWithoutUpperBound(c, stage, weapon, levelUpperBound, rawLevel, rawInjury) ==
    LET level == Max(rawLevel, 1)
        injury == clamp(rawInjury, 0, INJURY_MAX)
    IN  showOutputs(
            [c EXCEPT
                !.levelInput.max = NatToString(levelUpperBound),
                !.levelInput.value =
                    IF level # rawLevel THEN IntToString(level) ELSE @,
                !.injuryInput.max = NatToString(INJURY_MAX),
                !.injuryInput.value =
                    IF injury # rawInjury THEN IntToString(injury) ELSE @],
            stage, weapon, rawLevel, level, rawInjury, injury,
            calculate(weapon, stage, level, injury))

\* The middle of updateOutputs: the level and the injury are clamped and
\* written back where the clamp changed them, and the calculators are called.
clampInputs(c, stage, weapon, levelUpperBound, rawLevel, rawInjury) ==
    LET level == clamp(rawLevel, 1, levelUpperBound)
        injury == clamp(rawInjury, 0, INJURY_MAX)
    IN  showOutputs(
            [c EXCEPT
                !.levelInput.max = NatToString(levelUpperBound),
                !.levelInput.value =
                    IF level # rawLevel THEN IntToString(level) ELSE @,
                !.injuryInput.max = NatToString(INJURY_MAX),
                !.injuryInput.value =
                    IF injury # rawInjury THEN IntToString(injury) ELSE @],
            stage, weapon, rawLevel, level, rawInjury, injury,
            calculate(weapon, stage, level, injury))

\* The first lines of updateOutputs: a weapon the stage does not permit is
\* replaced by the first one it permits.
selectAllowed(c) ==
    LET allowedWeapons == allowedAt(c.stageSelect.value)
    IN  IF ~Includes(allowedWeapons, c.weaponSelect.value) /\ Len(allowedWeapons) > 0
        THEN [c EXCEPT !.weaponSelect = SelectSetValue(@, allowedWeapons[1])]
        ELSE c

\* updateOutputs once the weapon is settled; it returns early, with what it
\* had passed before, when the catalog does not hold the weapon.
updateSelected(selected, passedBefore) ==
    IF selected.weaponSelect.value \notin DOMAIN weaponCatalog
    THEN [cache |-> selected, passed |-> passedBefore]
    ELSE clampInputs(
             selected, selected.stageSelect.value, selected.weaponSelect.value,
             IF selected.stageSelect.value \in DOMAIN stageMaxLevels
             THEN stageMaxLevels[selected.stageSelect.value] ELSE 199,
             OrElse(parseInt(selected.levelInput.value), 1),
             OrElse(parseInt(selected.injuryInput.value), 0))

\* What updateOutputs leaves: the elements, and what it passed to the
\* calculators.
updateOutputs(c, passedBefore) == updateSelected(selectAllowed(c), passedBefore)

\* Mutant of handleStageChange: the weapon options are not rendered anew and
\* the outputs are not updated.
handleStageChangeWithoutRefresh(c, passedBefore) ==
    [cache |-> c, passed |-> passedBefore]

\* The DOMContentLoaded listener (the listeners it binds are the actions).
onDOMContentLoaded(c, passedBefore) ==
    LET staged == populateStageOptions(c)
        initialStage == IF staged.stageSelect.value # ""
                        THEN staged.stageSelect.value ELSE "initial"
    IN  updateOutputs(populateWeaponOptions(staged, initialStage), passedBefore)

handleStageChange(c, passedBefore) ==
    LET stage == c.stageSelect.value
    IN  updateOutputs(populateWeaponOptions(c, stage), passedBefore)

\* The wheel listener of enableWheelAdjustment on an input: the input it
\* leaves, and whether it went on to updateOutputs. deltaY is event.deltaY.
wheelAdjustment(input, deltaY) ==
    LET rawCurrent == OrElse(parseInt(input.value), 0)
        stepAttr == parseInt(input.step)
        step == IF stepAttr.isNaN \/ stepAttr.value <= 0 THEN 1 ELSE stepAttr.value
        direction == IF deltaY < 0 THEN 1 ELSE 0 - 1
        minAttr == parseInt(input.min)
        maxAttr == parseInt(input.max)
        moved == rawCurrent + direction * step
        raised == IF minAttr.isNaN THEN moved ELSE Max(moved, minAttr.value)
        nextValue == IF maxAttr.isNaN THEN raised ELSE Min(raised, maxAttr.value)
    IN  IF deltaY = 0 \/ nextValue = rawCurrent
        THEN [input |-> input, updates |-> FALSE]
        ELSE [input |-> [input EXCEPT !.value = IntToString(nextValue)],
              updates |-> TRUE]

\* The wheel listener on cache[input]: it updates the outputs when it has
\* changed the input's value.
onWheel(c, passedBefore, input, deltaY) ==
    LET adjusted == wheelAdjustment(c[input], deltaY)
    IN  IF adjusted.updates
        THEN updateOutputs([c EXCEPT ![input] = adjusted.input], passedBefore)
        ELSE [cache |-> c, passed |-> passedBefore]

\* ------------------------------------------------------------------------
\* State: one function of the calculator under call
\* ------------------------------------------------------------------------
VARIABLES
    fn,                \* the function under call
    argLevel,          \* its argument level
    argStage,          \* its argument stage
    argLostHp,         \* its argument lostHp (the injury)
    argCoefficient2,   \* twice its argument coefficient
    argPhase,          \* its argument phase
    argWeapon,         \* its argument weapon
    argTotalSeconds2,  \* twice its argument totalSeconds
    argExpression,     \* its argument expression
    called,            \* whether it has returned
    result,            \* what it returned
    maxSeen,           \* the largest value returned before, for a smaller lostHp
    readyState,        \* how far the page has come: script run, listeners bound
    memory,            \* the objects the script holds: the tables and the results
    cache,             \* the DOM elements of const cache and their properties
    passed,            \* what updateOutputs last passed to the calculators
    history            \* the event handled last and the selections before it

vars ==
    <<fn, argLevel, argStage, argLostHp, argCoefficient2, argPhase, argWeapon,
      argTotalSeconds2, argExpression, called, result, maxSeen,
      readyState, memory, cache, passed, history>>

args ==
    <<fn, argLevel, argStage, argLostHp, argCoefficient2, argPhase, argWeapon,
      argTotalSeconds2, argExpression>>

\* The page and the script's memory.
page == <<readyState, memory, cache, passed, history>>

\* Filler for an argument the function under call does not take, and for the
\* result before it returns.
None == "none"

\* A function called on its own, with no page loaded.
NoPage ==
    /\ argExpression = <<>>
    /\ readyState = None /\ memory = None /\ cache = None
    /\ passed = None /\ history = None

\* Injuries below zero that the direct calls pass: -NegInjuries .. INJURY_MAX.
NegInjuries == 2

InjuryInputs == (0 - NegInjuries)..INJURY_MAX

\* Levels beyond 1 .. 199 on either side that determinePhase is called with.
LevelMargin == 50

\* formatSeconds is called with every whole number of seconds up to
\* MaxTotalSeconds (above 100 hours) and every half up to MaxHalfSeconds.
MaxTotalSeconds == 362000

MaxHalfSeconds == 4000

MaxLevel == stageMaxLevels["awakened"]

\* ------------------------------------------------------------------------
\* determinePhase
\* ------------------------------------------------------------------------
PhaseInit ==
    /\ fn = "determinePhase"
    /\ argLevel \in (1 - LevelMargin)..(MaxLevel + LevelMargin)
    /\ argStage \in StageKey
    /\ argLostHp = 0 /\ argCoefficient2 = 0 /\ argPhase = None
    /\ argWeapon = None /\ argTotalSeconds2 = 0
    /\ called = FALSE /\ result = None /\ maxSeen = 0
    /\ NoPage

PhaseCall ==
    /\ fn = "determinePhase"
    /\ ~called
    /\ called' = TRUE
    /\ result' = determinePhase(argLevel, argStage)
    /\ UNCHANGED <<args, maxSeen, page>>

PhaseSpec == PhaseInit /\ [][PhaseCall]_vars

\* ------------------------------------------------------------------------
\* calculateRepairSeconds, called at one (level, coefficient, phase) with
\* lostHp rising from its least value to INJURY_MAX
\* ------------------------------------------------------------------------
RepairInit ==
    /\ fn = "calculateRepairSeconds"
    /\ argLevel \in 1..MaxLevel
    /\ argCoefficient2 \in CatalogCoefficients2
    /\ argPhase \in PhaseKey
    /\ argLostHp = 0 - NegInjuries
    /\ argStage = None /\ argWeapon = None /\ argTotalSeconds2 = 0
    /\ called = FALSE /\ result = None /\ maxSeen = 0
    /\ NoPage

RepairFirst ==
    /\ fn = "calculateRepairSeconds"
    /\ ~called
    /\ called' = TRUE
    /\ result' = calculateRepairSeconds(argLevel, argLostHp, argCoefficient2, argPhase)
    /\ UNCHANGED <<args, maxSeen, page>>

RepairNext ==
    /\ fn = "calculateRepairSeconds"
    /\ called
    /\ argLostHp < INJURY_MAX
    /\ argLostHp' = argLostHp + 1
    /\ result' = calculateRepairSeconds(argLevel, argLostHp', argCoefficient2, argPhase)
    /\ maxSeen' = Max(maxSeen, result)
    /\ UNCHANGED <<fn, argLevel, argStage, argCoefficient2, argPhase, argWeapon,
                   argTotalSeconds2, argExpression, called, page>>

RepairStep == RepairFirst \/ RepairNext

RepairSpec == RepairInit /\ [][RepairStep]_vars

\* ------------------------------------------------------------------------
\* calculateRepairSeconds of the compiled public/script.js
\* ------------------------------------------------------------------------
PublicRepairInit ==
    /\ fn = "public/script.js calculateRepairSeconds"
    /\ argLevel \in 1..MaxLevel
    /\ argCoefficient2 \in CatalogCoefficients2
    /\ argPhase \in PhaseKey
    /\ argLostHp \in InjuryInputs
    /\ argStage = None /\ argWeapon = None /\ argTotalSeconds2 = 0
    /\ called = FALSE /\ result = None /\ maxSeen = 0
    /\ NoPage

PublicRepairCall ==
    /\ fn = "public/script.js calculateRepairSeconds"
    /\ ~called
    /\ called' = TRUE
    /\ result' =
           publicCalculateRepairSeconds(argLevel, argLostHp, argCoefficient2, argPhase)
    /\ UNCHANGED <<args, maxSeen, page>>

PublicRepairSpec == PublicRepairInit /\ [][PublicRepairCall]_vars

\* ------------------------------------------------------------------------
\* calculateResourceCost
\* ------------------------------------------------------------------------
CostInit ==
    /\ fn = "calculateResourceCost"
    /\ argWeapon \in WeaponKey
    /\ argLostHp \in InjuryInputs
    /\ argCoefficient2 \in CatalogCoefficients2
    /\ argLevel = 0 /\ argStage = None /\ argPhase = None /\ argTotalSeconds2 = 0
    /\ called = FALSE /\ result = None /\ maxSeen = 0
    /\ NoPage

CostCall ==
    /\ fn = "calculateResourceCost"
    /\ ~called
    /\ called' = TRUE
    /\ result' = calculateResourceCost(argWeapon, argLostHp, argCoefficient2)
    /\ UNCHANGED <<args, maxSeen, page>>

CostSpec == CostInit /\ [][CostCall]_vars

\* ------------------------------------------------------------------------
\* calculateResourceCost with a weapon key the catalog does not hold
\* ------------------------------------------------------------------------
UnknownWeaponKeys == {"", "ken", "tanto"}

UnknownWeaponInit ==
    /\ fn = "calculateResourceCost"
    /\ argWeapon \in UnknownWeaponKeys
    /\ argLostHp \in InjuryInputs
    /\ argCoefficient2 \in CatalogCoefficients2
    /\ argLevel = 0 /\ argStage = None /\ argPhase = None /\ argTotalSeconds2 = 0
    /\ called = FALSE /\ result = None /\ maxSeen = 0
    /\ NoPage

UnknownWeaponSpec == UnknownWeaponInit /\ [][CostCall]_vars

\* ------------------------------------------------------------------------
\* parseInnerRoot, and the preprocessing of a table that holds the
\* expression, for every expression of at most MaxExpressionLen characters
\* ------------------------------------------------------------------------
MaxExpressionLen == 4

ExpressionCharacters == {RADICAL, " ", "1", "6", ".", "a"}

Expressions ==
    UNION {[1..n -> ExpressionCharacters] : n \in 0..MaxExpressionLen}

\* The table of expressions with the one of tantou's charcoal replaced.
expressionsWith(expression) ==
    [resourceBaseExpressions EXCEPT !["tantou"]["charcoal"] = expression]

ParseInit ==
    /\ fn \in {"parseInnerRoot", "precomputedResourceBases"}
    /\ argExpression \in Expressions
    /\ argLevel = 0 /\ argStage = None /\ argLostHp = 0 /\ argCoefficient2 = 0
    /\ argPhase = None /\ argWeapon = None /\ argTotalSeconds2 = 0
    /\ called = FALSE /\ result = None /\ maxSeen = 0
    /\ readyState = None /\ memory = None /\ cache = None
    /\ passed = None /\ history = None

ParseCall ==
    /\ fn = "parseInnerRoot"
    /\ ~called
    /\ called' = TRUE
    /\ result' = parseInnerRoot(argExpression)
    /\ UNCHANGED <<args, maxSeen, page>>

PreprocessCall ==
    /\ fn = "precomputedResourceBases"
    /\ ~called
    /\ called' = TRUE
    /\ result' = reduceResourceBases(expressionsWith(argExpression))
    /\ UNCHANGED <<args, maxSeen, page>>

ParseStep == ParseCall \/ PreprocessCall

ParseSpec == ParseInit /\ [][ParseStep]_vars

\* ------------------------------------------------------------------------
\* formatSeconds
\* ------------------------------------------------------------------------
FormatInputs2 ==
    ((0 - 2 * NegInjuries)..(2 * MaxHalfSeconds))
        \cup {2 * n : n \in MaxHalfSeconds..MaxTotalSeconds}

FormatInit ==
    /\ fn = "formatSeconds"
    /\ argTotalSeconds2 \in FormatInputs2
    /\ argLevel = 0 /\ argStage = None /\ argLostHp = 0 /\ argCoefficient2 = 0
    /\ argPhase = None /\ argWeapon = None
    /\ called = FALSE /\ result = None /\ maxSeen = 0
    /\ NoPage

FormatCall ==
    /\ fn = "formatSeconds"
    /\ ~called
    /\ called' = TRUE
    /\ result' = formatSeconds(argTotalSeconds2)
    /\ UNCHANGED <<args, maxSeen, page>>

FormatSpec == FormatInit /\ [][FormatCall]_vars

\* ------------------------------------------------------------------------
\* The calculation of updateOutputs, for every weapon, stage, level within
\* the stage's range and injury within 0 .. INJURY_MAX
\* ------------------------------------------------------------------------
CalcInit ==
    /\ fn = "calculate"
    /\ argWeapon \in WeaponKey
    /\ argStage \in StageKey
    /\ argLevel \in 1..stageMaxLevels[argStage]
    /\ argLostHp \in 0..INJURY_MAX
    /\ argCoefficient2 = 0 /\ argPhase = None /\ argTotalSeconds2 = 0
    /\ called = FALSE /\ result = None /\ maxSeen = 0
    /\ NoPage

CalcCall ==
    /\ fn = "calculate"
    /\ ~called
    /\ called' = TRUE
    /\ result' = calculate(argWeapon, argStage, argLevel, argLostHp)
    /\ UNCHANGED <<args, maxSeen, page>>

CalcSpec == CalcInit /\ [][CalcCall]_vars

\* ------------------------------------------------------------------------
\* The page: the script is evaluated, DOMContentLoaded is handled, and then
\* the user changes the stage, picks a weapon, types a level or an injury,
\* or turns the wheel over one of the two inputs
\* ------------------------------------------------------------------------
\* The wheel events of one session.
MaxWheelEvents == 1

\* What the user types into the level and the injury inputs.
LevelTexts ==
    {<<>>, <<"1">>, <<"1", "0", "0">>, <<"2", "0", "0">>, <<"-", "1">>,
     <<"1", ".", "5">>}

InjuryTexts == {<<>>, <<"1", "0">>, <<"1", "5", "1">>, <<"-", "1">>}

\* The elements as the document gives them, before any script has run: the
\* selects hold no option or one, the inputs carry their attributes or none.
Documents ==
    {[weaponSelect |-> [options |-> weaponOptions(preset),
                        value |-> IF preset = <<>> THEN "" ELSE preset[1]],
      stageSelect |-> [options |-> <<>>, value |-> ""],
      levelInput |-> [value |-> level, min |-> IF attributes THEN <<"1">> ELSE <<>>,
                      max |-> <<>>, step |-> IF attributes THEN <<"1">> ELSE <<>>],
      injuryInput |-> [value |-> injury, min |-> IF attributes THEN <<"0">> ELSE <<>>,
                       max |-> <<>>, step |-> IF attributes THEN <<"1">> ELSE <<>>],
      phaseDisplay |-> "",
      timeOutput |-> <<>>,
      resourceOutputs |-> [kind \in ResourceKind |-> <<>>]] :
        preset \in {<<>>, <<"naginata">>},
        level \in {<<>>, <<"1">>},
        injury \in {<<>>, <<"0">>},
        attributes \in BOOLEAN}

\* A handler has run: the elements and what was passed are as it left them.
Handled(updated) ==
    /\ cache' = updated.cache
    /\ passed' = updated.passed

\* The history of an event other than a change of the stage.
OtherEvent(wheelEvents) ==
    [event |-> "other", previousStage |-> "", previousSelection |-> "",
     previousLevel |-> <<>>, previousInjury |-> <<>>, wheelEvents |-> wheelEvents]

Init ==
    /\ fn = "page"
    /\ argLevel = 0 /\ argStage = None /\ argLostHp = 0 /\ argCoefficient2 = 0
    /\ argPhase = None /\ argWeapon = None /\ argTotalSeconds2 = 0
    /\ argExpression = <<>>
    /\ called = FALSE /\ result = None /\ maxSeen = 0
    /\ readyState = "loading"
    /\ memory = None
    /\ cache \in Documents
    /\ passed = None
    /\ history = OtherEvent(0)

\* The script runs to its end: the tables are built, the elements are
\* looked up and the DOMContentLoaded listener is added. An error thrown
\* while the bases are precomputed ends it before that.
ScriptEvaluated ==
    /\ fn = "page"
    /\ readyState = "loading"
    /\ LET bases == reduceResourceBases(resourceBaseExpressions)
       IN  IF "error" \in DOMAIN bases
           THEN /\ readyState' = "aborted"
                /\ memory' = memory
           ELSE /\ readyState' = "listening"
                /\ memory' = [weaponCatalog |-> weaponCatalog,
                              stageWeaponMap |-> stageWeaponMap,
                              stageMaxLevels |-> stageMaxLevels,
                              precomputedResourceBases |-> bases]
    /\ UNCHANGED <<args, called, result, maxSeen, cache, passed, history>>

DOMContentLoaded ==
    /\ fn = "page"
    /\ readyState = "listening"
    /\ Handled(onDOMContentLoaded(cache, passed))
    /\ readyState' = "complete"
    /\ UNCHANGED <<args, called, result, maxSeen, memory, history>>

\* The user picks another stage: the change event of the stage select.
StageChange(stage) ==
    /\ fn = "page"
    /\ readyState = "complete"
    /\ Includes(OptionValues(cache.stageSelect), stage)
    /\ stage # cache.stageSelect.value
    /\ Handled(handleStageChange([cache EXCEPT !.stageSelect.value = stage], passed))
    /\ history' = [event |-> "stage",
                   previousStage |-> cache.stageSelect.value,
                   previousSelection |-> cache.weaponSelect.value,
                   previousLevel |-> cache.levelInput.value,
                   previousInjury |-> cache.injuryInput.value,
                   wheelEvents |-> history.wheelEvents]
    /\ UNCHANGED <<args, called, result, maxSeen, readyState, memory>>

\* The user picks a weapon: the input event of the weapon select.
WeaponInput(weapon) ==
    /\ fn = "page"
    /\ readyState = "complete"
    /\ Includes(OptionValues(cache.weaponSelect), weapon)
    /\ Handled(updateOutputs([cache EXCEPT !.weaponSelect.value = weapon], passed))
    /\ history' = OtherEvent(history.wheelEvents)
    /\ UNCHANGED <<args, called, result, maxSeen, readyState, memory>>

\* The change event of the weapon select, which follows its input event.
WeaponChange ==
    /\ fn = "page"
    /\ readyState = "complete"
    /\ Handled(updateOutputs(cache, passed))
    /\ history' = OtherEvent(history.wheelEvents)
    /\ UNCHANGED <<args, called, result, maxSeen, readyState, memory>>

\* The user types a level: the input event of the level input.
LevelInput(text) ==
    /\ fn = "page"
    /\ readyState = "complete"
    /\ Handled(updateOutputs([cache EXCEPT !.levelInput.value = text], passed))
    /\ history' = OtherEvent(history.wheelEvents)
    /\ UNCHANGED <<args, called, result, maxSeen, readyState, memory>>

\* The user types an injury: the input event of the injury input.
InjuryInput(text) ==
    /\ fn = "page"
    /\ readyState = "complete"
    /\ Handled(updateOutputs([cache EXCEPT !.injuryInput.value = text], passed))
    /\ history' = OtherEvent(history.wheelEvents)
    /\ UNCHANGED <<args, called, result, maxSeen, readyState, memory>>

\* The wheel turns over the level input.
LevelWheel(deltaY) ==
    /\ fn = "page"
    /\ readyState = "complete"
    /\ history.wheelEvents < MaxWheelEvents
    /\ Handled(onWheel(cache, passed, "levelInput", deltaY))
    /\ history' = OtherEvent(history.wheelEvents + 1)
    /\ UNCHANGED <<args, called, result, maxSeen, readyState, memory>>

\* The wheel turns over the injury input.
InjuryWheel(deltaY) ==
    /\ fn = "page"
    /\ readyState = "complete"
    /\ history.wheelEvents < MaxWheelEvents
    /\ Handled(onWheel(cache, passed, "injuryInput", deltaY))
    /\ history' = OtherEvent(history.wheelEvents + 1)
    /\ UNCHANGED <<args, called, result, maxSeen, readyState, memory>>

Next ==
    \/ ScriptEvaluated
    \/ DOMContentLoaded
    \/ \E stage \in StageKey : StageChange(stage)
    \/ \E weapon \in WeaponKey : WeaponInput(weapon)
    \/ WeaponChange
    \/ \E text \in LevelTexts : LevelInput(text)
    \/ \E text \in InjuryTexts : InjuryInput(text)
    \/ \E deltaY \in {0 - 100, 0, 100} : LevelWheel(deltaY)
    \/ \E deltaY \in {0 - 100, 0, 100} : InjuryWheel(deltaY)

Spec == Init /\ [][Next]_vars

\* ------------------------------------------------------------------------
\* The four calculators called in any order on the tables the script holds
\* ------------------------------------------------------------------------
\* The calls of calculateResourceCost in one run.
MaxCostCalls == 3

CallsInit ==
    /\ fn = "script"
    /\ argLevel = 0 /\ argStage = None /\ argLostHp = 0 /\ argCoefficient2 = 0
    /\ argPhase = None /\ argWeapon = None /\ argTotalSeconds2 = 0
    /\ argExpression = <<>>
    /\ called = FALSE /\ result = None /\ maxSeen = 0
    /\ readyState = "listening"
    /\ memory = [weaponCatalog |-> weaponCatalog,
                 stageWeaponMap |-> stageWeaponMap,
                 stageMaxLevels |-> stageMaxLevels,
                 precomputedResourceBases |->
                     reduceResourceBases(resourceBaseExpressions),
                 objects |-> <<>>]
    /\ cache = None
    /\ passed = None
    /\ history = <<>>

CallDeterminePhase(level, stage) ==
    /\ fn' = "determinePhase"
    /\ argLevel' = level /\ argStage' = stage
    /\ called' = TRUE
    /\ result' = determinePhase(level, stage)
    /\ UNCHANGED <<argLostHp, argCoefficient2, argPhase, argWeapon, argTotalSeconds2,
                   argExpression, maxSeen, page>>

CallCalculateRepairSeconds(level, lostHp, coefficient2, phase) ==
    /\ fn' = "calculateRepairSeconds"
    /\ argLevel' = level /\ argLostHp' = lostHp
    /\ argCoefficient2' = coefficient2 /\ argPhase' = phase
    /\ called' = TRUE
    /\ result' = calculateRepairSeconds(level, lostHp, coefficient2, phase)
    /\ UNCHANGED <<argStage, argWeapon, argTotalSeconds2, argExpression, maxSeen, page>>

\* history is the references calculateResourceCost has returned so far.
CallCalculateResourceCost(weapon, lostHp, coefficient2) ==
    /\ Len(history) < MaxCostCalls
    /\ fn' = "calculateResourceCost"
    /\ argWeapon' = weapon /\ argLostHp' = lostHp /\ argCoefficient2' = coefficient2
    /\ called' = TRUE
    /\ LET outcome == calculateResourceCostIn(memory, weapon, lostHp, coefficient2)
       IN  /\ memory' = outcome.memory
           /\ result' = outcome.returned
           /\ history' = Append(history, outcome.returned)
    /\ UNCHANGED <<argLevel, argStage, argPhase, argTotalSeconds2, argExpression,
                   maxSeen, readyState, cache, passed>>

CallFormatSeconds(seconds2) ==
    /\ fn' = "formatSeconds"
    /\ argTotalSeconds2' = seconds2
    /\ called' = TRUE
    /\ result' = formatSeconds(seconds2)
    /\ UNCHANGED <<argLevel, argStage, argLostHp, argCoefficient2, argPhase, argWeapon,
                   argExpression, maxSeen, page>>

CallsNext ==
    \/ \E level \in {99, 100}, stage \in StageKey : CallDeterminePhase(level, stage)
    \/ \E level \in {1, 100}, lostHp \in {0, 10}, phase \in PhaseKey :
           CallCalculateRepairSeconds(level, lostHp, 2, phase)
    \/ \E weapon \in {"tantou", "ootachi"}, lostHp \in {0, 10} :
           CallCalculateResourceCost(weapon, lostHp, weaponCatalog[weapon].coefficient2)
    \/ \E seconds \in {80, 3661} : CallFormatSeconds(2 * seconds)

CallsSpec == CallsInit /\ [][CallsNext]_vars

\* ------------------------------------------------------------------------
\* Properties
\* ------------------------------------------------------------------------
Nonbloom == {"initial", "awakened"}

\* C1: determinePhase(level, stage) is bloom when level >= 100 whatever the
\* stage, awakened when level < 100 and stage = awakened, initial otherwise.
C1_DeterminePhase ==
    (fn = "determinePhase" /\ called) =>
        /\ argLevel >= 100 => result = "bloom"
        /\ (argLevel < 100 /\ argStage = "awakened") => result = "awakened"
        /\ (argLevel < 100 /\ argStage # "awakened") => result = "initial"

\* C1 witness: level 100 at stage initial has returned bloom.
C1_Witness ==
    /\ fn = "determinePhase" /\ called
    /\ argLevel = 100 /\ argStage = "initial"
    /\ result = "bloom"

\* C2: for a non-bloomed phase, injury > 0 and level in 1..99 the seconds are
\* max(30, round((level * 5 + aTerm) * coefficient * injury) + 30), aTerm being
\* 0 up to level 11 and floor(sqrt(level - 11)) * 10 + 50 above.
C2_NonBloomFormula ==
    (/\ fn = "calculateRepairSeconds" /\ called
     /\ argPhase \in Nonbloom /\ argLostHp > 0 /\ argLevel \in 1..99) =>
        LET root == CHOOSE r \in 0..argLevel :
                        /\ r * r <= argLevel - 11
                        /\ (r + 1) * (r + 1) > argLevel - 11
            aTerm == IF argLevel <= 11 THEN 0 ELSE root * 10 + 50
            \* twice (level * 5 + aTerm) * coefficient * injury
            product2 == (argLevel * 5 + aTerm) * argCoefficient2 * argLostHp
            rounded == IF product2 % 2 = 0 THEN product2 \div 2
                       ELSE (product2 + 1) \div 2
        IN  result = Max(30, rounded + 30)

\* C2 witness: level 50, coefficient 1.5, injury 10, awakened: 360 * 15 + 30.
C2_Witness ==
    /\ fn = "calculateRepairSeconds" /\ called
    /\ argPhase = "awakened" /\ argLevel = 50
    /\ argCoefficient2 = 3 /\ argLostHp = 10
    /\ result = 5430

\* C3: for phase bloom, injury > 0 and level in 100..199 the seconds are
\* max(30, round(g(level) * coefficient * injury) + 30) with the cubic
\* g(level) = 339.325408 + 5.5896113 level - 0.0386452486 level^2
\*            + 0.0000829599381 level^3,
\* in the calculator as shipped.  With G = 10^13 g(level) and k = twice the
\* coefficient times injury, r = round(g * coefficient * injury) is the integer
\* with (2 r - 1) 10^13 <= G k < (2 r + 1) 10^13.
C3_BloomCubic ==
    (/\ called
     /\ argPhase = "bloom" /\ argLostHp > 0 /\ argLevel \in 100..199) =>
        LET c0 == FixNorm(0, 33932540, 80000000)
            c1 == FixNorm(0, 558961, 13000000)
            c2 == FixNorm(0, 0 - 3864, 0 - 52486000)
            c3 == FixNorm(0, 8, 29599381)
            \* Horner: c0 + level (c1 + level (c2 + level c3))
            G == FixAdd(c0, FixMulInt(
                     FixAdd(c1, FixMulInt(
                         FixAdd(c2, FixMulInt(c3, argLevel)), argLevel)), argLevel))
            Gk == FixMulInt(G, argCoefficient2 * argLostHp)
            r == result - 30
        IN  \/ /\ result > 30
               /\ FixLeq(FixMulInt(TenTo13, 2 * r - 1), Gk)
               /\ ~FixLeq(FixMulInt(TenTo13, 2 * r + 1), Gk)
            \/ /\ result = 30
               /\ ~FixLeq(TenTo13, Gk)

\* C4: calculateRepairSeconds is exactly 30 whenever injury <= 0, for every
\* level, coefficient and phase.
C4_NoInjuryIsThirty ==
    (fn = "calculateRepairSeconds" /\ called /\ argLostHp <= 0) => result = 30

\* C4 witness: a negative injury in phase bloom has returned 30.
C4_Witness ==
    /\ fn = "calculateRepairSeconds" /\ called
    /\ argLostHp = 0 - 1 /\ argPhase = "bloom" /\ argLevel = 150
    /\ result = 30

\* C5: for fixed (level, coefficient, phase) the seconds do not decrease as
\* the injury grows: the value at the current injury is at least every value
\* returned at a smaller one (maxSeen is the largest of those).
C5_MonotoneInInjury ==
    (fn = "calculateRepairSeconds" /\ called) => result >= maxSeen

\* C5 witness: the sweep has reached the largest injury, above earlier values.
C5_Witness ==
    /\ fn = "calculateRepairSeconds" /\ called
    /\ argLostHp = INJURY_MAX
    /\ maxSeen > 30 /\ result > maxSeen

\* C6: for every catalog weapon, stage, level in 1..maxLevel(stage) and injury
\* in 0..150 the result has integer repairSeconds >= 30 and four integer
\* resources >= 0.
C6_ResultRanges ==
    (fn = "calculate" /\ called) =>
        /\ result.repairSeconds \in Int
        /\ result.repairSeconds >= 30
        /\ DOMAIN result.resourceCost = {"charcoal", "steel", "coolant", "whetstone"}
        /\ \A kind \in DOMAIN result.resourceCost :
               /\ result.resourceCost[kind] \in Int
               /\ result.resourceCost[kind] >= 0

\* C6 witness: ootachi, awakened, level 199, injury 150 has been calculated.
C6_Witness ==
    /\ fn = "calculate" /\ called
    /\ argWeapon = "ootachi" /\ argStage = "awakened"
    /\ argLevel = 199 /\ argLostHp = INJURY_MAX
    /\ result.repairSeconds = 517567
    /\ result.resourceCost["steel"] > 0

\* C7: for injury > 0 each resource r of calculateResourceCost(weapon, injury,
\* coefficient) is max(0, round(ResourceBase[weapon][r] * coefficient * injury)),
\* ResourceBase being the square root of the table's number x: the cost n is
\* the integer with n - 1/2 <= sqrt(x) * coefficient * injury < n + 1/2, i.e.
\* 100 (2 n - 1)^2 <= 100 x k^2 < 100 (2 n + 1)^2 for k = twice the coefficient
\* times injury.  Only weapon, coefficient and injury enter.
C7_CostFormula ==
    (fn = "calculateResourceCost" /\ called /\ argLostHp > 0) =>
        \A kind \in {"charcoal", "steel", "coolant", "whetstone"} :
            LET x100 == precomputedResourceBases[argWeapon][kind].radicand100
                k == argCoefficient2 * argLostHp
                target == FixMulInt(FixFromInt(x100), k * k)
                n == result[kind]
                below == FixMulInt(FixFromInt((2 * n - 1) * (2 * n - 1)), 100)
                above == FixMulInt(FixFromInt((2 * n + 1) * (2 * n + 1)), 100)
            IN  /\ n >= 0
                /\ n > 0 => FixLeq(below, target)
                /\ ~FixLeq(above, target)

\* C7 witness: tantou (base 4), coefficient 1, injury 5 costs 20 of each.
C7_Witness ==
    /\ fn = "calculateResourceCost" /\ called
    /\ argWeapon = "tantou" /\ argCoefficient2 = 2 /\ argLostHp = 5
    /\ result = [charcoal |-> 20, steel |-> 20, coolant |-> 20, whetstone |-> 20]

\* C8: calculateResourceCost is 0 for all four resources whenever injury <= 0,
\* for every weapon and coefficient.
C8_NoInjuryCostsNothing ==
    (fn = "calculateResourceCost" /\ called /\ argLostHp <= 0) =>
        result = [charcoal |-> 0, steel |-> 0, coolant |-> 0, whetstone |-> 0]

\* C8 witness: yari at injury 0 has returned four zeros.
C8_Witness ==
    /\ fn = "calculateResourceCost" /\ called
    /\ argWeapon = "yari" /\ argLostHp = 0
    /\ \A kind \in DOMAIN result : result[kind] = 0

RECURSIVE SplitAt(_, _)
\* String.prototype.split(separator): the fields of str between separators.
SplitAt(str, separator) ==
    IF \E i \in 1..Len(str) : str[i] = separator
    THEN LET at == CHOOSE i \in 1..Len(str) :
                       str[i] = separator /\ \A j \in 1..(i - 1) : str[j] # separator
         IN  <<SubSeq(str, 1, at - 1)>>
                 \o SplitAt(SubSeq(str, at + 1, Len(str)), separator)
    ELSE <<str>>

\* C9: formatSeconds(n) is three fields H:M:S of digits, each at least two
\* long and zero-padded no further, with H * 3600 + M * 60 + S =
\* max(30, round(n)), M and S in 0..59 and H neither wrapped nor capped
\* (three digits and more from 100 hours); 30 gives 00:00:30, 3661 gives
\* 01:01:01 and 29 gives 00:00:30.
C9_FormatSeconds ==
    (fn = "formatSeconds" /\ called) =>
        LET fields == SplitAt(result, ":")
        IN  /\ Len(fields) = 3
            /\ \A i \in 1..3 :
                   /\ Len(fields[i]) >= 2
                   /\ \A j \in 1..Len(fields[i]) : IsDigit(fields[i][j])
                   /\ Len(fields[i]) > 2 => fields[i][1] # "0"
            /\ LET H == DigitsValue(fields[1], 0)
                   M == DigitsValue(fields[2], 0)
                   S == DigitsValue(fields[3], 0)
                   total == H * 3600 + M * 60 + S
               IN  /\ M \in 0..59
                   /\ S \in 0..59
                   /\ H >= 100 => Len(fields[1]) >= 3
                   /\ total >= 30
                   \* total = round(n) when that exceeds 30: nearest, a tie up
                   /\ total > 30 => (2 * total - argTotalSeconds2) \in {0, 1}
                   \* total = 30 when round(n) <= 30, i.e. n < 30.5
                   /\ total = 30 => argTotalSeconds2 <= 60
            /\ argTotalSeconds2 = 2 * 30 =>
                   result = <<"0", "0", ":", "0", "0", ":", "3", "0">>
            /\ argTotalSeconds2 = 2 * 3661 =>
                   result = <<"0", "1", ":", "0", "1", ":", "0", "1">>
            /\ argTotalSeconds2 = 2 * 29 =>
                   result = <<"0", "0", ":", "0", "0", ":", "3", "0">>

\* C9 witness: 360000 seconds have been formatted as 100:00:00.
C9_Witness ==
    /\ fn = "formatSeconds" /\ called
    /\ argTotalSeconds2 = 2 * 360000
    /\ result = <<"1", "0", "0", ":", "0", "0", ":", "0", "0">>

\* C10: the seconds are the pre-floor value rounded to the nearest integer,
\* an exact half going up, and the floor at 30 comes after the rounding;
\* wakizashi (coefficient 1.5), level 1, injury 1 gives round(7.5) + 30 = 38.
\* With x the pre-floor value (product + 30): result >= 30, and above 30 it is
\* the integer with result - 1/2 <= x < result + 1/2.
C10_RoundHalfUpThenFloor ==
    (fn = "calculateRepairSeconds" /\ called /\ argLostHp > 0) =>
        /\ result >= 30
        /\ argPhase \in Nonbloom =>
               LET \* twice the pre-floor value
                   x2 == (argLevel * 5 + aTermOf(argLevel)) * argCoefficient2 * argLostHp
                             + 2 * 30
               IN  /\ result > 30 => (2 * result - x2) \in {0, 1}
                   /\ result = 30 => x2 <= 60
        /\ argPhase = "bloom" =>
               LET \* 2 * 10^13 times the pre-floor value
                   x == FixAdd(
                            FixMulInt(bloomG(argLevel), argCoefficient2 * argLostHp),
                            FixMulInt(TenTo13, 2 * 30))
               IN  /\ result > 30 =>
                       /\ FixLeq(FixMulInt(TenTo13, 2 * result - 1), x)
                       /\ ~FixLeq(FixMulInt(TenTo13, 2 * result + 1), x)
                   /\ result = 30 => ~FixLeq(FixMulInt(TenTo13, 2 * 30 + 1), x)
        /\ (/\ argLevel = 1 /\ argCoefficient2 = 3 /\ argLostHp = 1
            /\ argPhase \in Nonbloom) => result = 38

\* C10 witness: wakizashi at level 1 with injury 1 has returned 38.
C10_Witness ==
    /\ fn = "calculateRepairSeconds" /\ called
    /\ argLevel = 1 /\ argCoefficient2 = 3 /\ argLostHp = 1
    /\ argPhase = "initial"
    /\ result = 38

\* C11: a weapon key the catalog does not hold, passed to the calculator of
\* the resource cost, makes the call fail with an error for every injury,
\* zero and below included; it never returns a result.
C11_UnknownWeaponFails ==
    (fn = "calculateResourceCost" /\ called /\ argWeapon \notin WeaponKey) =>
        "error" \in DOMAIN result

\* A decimal number: digits with at most one point among them, and nothing else.
ValidNumber(str) ==
    /\ \E i \in 1..Len(str) : IsDigit(str[i])
    /\ \A i \in 1..Len(str) : IsDigit(str[i]) \/ str[i] = "."
    /\ Cardinality({i \in 1..Len(str) : str[i] = "."}) <= 1

\* C12: whenever the text left of an expression, once the radical sign and
\* the surrounding blanks are stripped, is not a valid number, parseInnerRoot
\* fails with the error that names the expression, and the preprocessing of
\* a table that holds the expression fails with it and produces no table.
C12_MalformedExpressionFails ==
    (called /\ ~ValidNumber(StringTrim(RemoveFirst(argExpression, RADICAL)))) =>
        /\ fn = "parseInnerRoot" =>
               result = [error |-> "Invalid resource expression",
                         expression |-> argExpression]
        /\ fn = "precomputedResourceBases" =>
               result = [error |-> "Invalid resource expression",
                         expression |-> argExpression]

\* The number written in an expression, in hundredths: the digits before
\* the point count by their place, the two after it as tenths and hundredths.
EmbeddedHundredths(expression) ==
    LET written == SelectSeq(expression, LAMBDA c : IsDigit(c) \/ c = ".")
        point == IF \E i \in 1..Len(written) : written[i] = "."
                 THEN CHOOSE i \in 1..Len(written) : written[i] = "."
                 ELSE Len(written) + 1
        PlaceValue[i \in 0..(point - 1)] ==
            IF i = 0 THEN 0 ELSE 10 * PlaceValue[i - 1] + DigitValue(written[i])
        decimal(i) ==
            IF point + i <= Len(written) THEN DigitValue(written[point + i]) ELSE 0
    IN  100 * PlaceValue[point - 1] + 10 * decimal(1) + decimal(2)

\* C13: once the script has run, precomputedResourceBases holds for every
\* weapon of the catalog all four resources, each the square root of the
\* number written in the weapon's expression for that resource: its square
\* is that number, and the root of tantou's four entries is 4.
C13_ResourceBasesAreRoots ==
    (fn = "page" /\ readyState \in {"listening", "complete"}) =>
        /\ DOMAIN memory.precomputedResourceBases = WeaponKey
        /\ \A w \in WeaponKey :
               /\ DOMAIN memory.precomputedResourceBases[w]
                      = {"charcoal", "steel", "coolant", "whetstone"}
               /\ \A r \in {"charcoal", "steel", "coolant", "whetstone"} :
                      LET base == memory.precomputedResourceBases[w][r]
                          number == EmbeddedHundredths(resourceBaseExpressions[w][r])
                      IN  /\ base.radicand100 = number
                          /\ base.milli * base.milli <= number * TenTo4
                          /\ number * TenTo4 < (base.milli + 1) * (base.milli + 1)
        /\ \A r \in {"charcoal", "steel", "coolant", "whetstone"} :
               /\ memory.precomputedResourceBases["tantou"][r].radicand100 = 1600
               /\ memory.precomputedResourceBases["tantou"][r].milli = 4000

C13_Witness ==
    /\ fn = "page" /\ readyState = "complete"
    /\ memory.precomputedResourceBases["tantou"]["charcoal"].milli = 4000
    /\ memory.precomputedResourceBases["uchigatana"]["steel"].milli = 3500
    /\ memory.precomputedResourceBases["ootachi"]["whetstone"].radicand100 = 69

\* C14: for tantou at the initial stage, level 1 and injury 10, the
\* calculation takes the branch that is not bloom, with aTerm = 0, and gives
\* 80 seconds, shown as "00:01:20", and 40 of each of the four resources.
C14_TantouScenario ==
    (fn = "calculate" /\ called /\ argWeapon = "tantou" /\ argStage = "initial"
        /\ argLevel = 1 /\ argLostHp = 10) =>
        /\ result.phase = "initial"
        /\ aTermOf(argLevel) = 0
        /\ result.repairSeconds = 80
        /\ result.timeOutput = <<"0", "0", ":", "0", "1", ":", "2", "0">>
        /\ result.resourceCost
               = [charcoal |-> 40, steel |-> 40, coolant |-> 40, whetstone |-> 40]

C14_Witness ==
    /\ fn = "calculate" /\ called
    /\ argWeapon = "tantou" /\ argStage = "initial"
    /\ argLevel = 1 /\ argLostHp = 10
    /\ result.repairSeconds = 80

\* C15: the weapons offered for a stage are those of stageWeaponMap[stage]
\* in their declared order, each with its label; every one of them has a
\* catalog entry (label and coefficient) and an entry of resource bases;
\* the list of awakened is the list of initial without tsurugi.
C15_WeaponListOfStage ==
    (fn = "page" /\ readyState = "complete") =>
        LET stage == cache.stageSelect.value
            offered == cache.weaponSelect.options
            declared == memory.stageWeaponMap[stage]
        IN  /\ Len(offered) = Len(declared)
            /\ \A i \in 1..Len(declared) :
                   /\ offered[i].value = declared[i]
                   /\ declared[i] \in DOMAIN memory.weaponCatalog
                   /\ DOMAIN memory.weaponCatalog[declared[i]] = {"label", "coefficient2"}
                   /\ offered[i].textContent = memory.weaponCatalog[declared[i]].label
                   /\ declared[i] \in DOMAIN memory.precomputedResourceBases
            /\ memory.stageWeaponMap["awakened"]
                   = SelectSeq(memory.stageWeaponMap["initial"],
                               LAMBDA w : w # "tsurugi")
            /\ Includes(memory.stageWeaponMap["initial"], "tsurugi")

C15_Witness ==
    /\ fn = "page" /\ readyState = "complete"
    /\ cache.stageSelect.value = "awakened"
    /\ Len(cache.weaponSelect.options) = 8
    /\ cache.weaponSelect.options[8] = [value |-> "naginata", textContent |-> "naginata"]

\* C16: once updateOutputs has run, after any sequence of events, the weapon
\* selected is one the current stage permits, and it is the one passed to
\* the calculators; when the stage changes to awakened while tsurugi is
\* selected, the selection becomes the first weapon awakened permits.
C16_SelectionPermitted ==
    (fn = "page" /\ readyState = "complete") =>
        /\ Includes(memory.stageWeaponMap[cache.stageSelect.value],
                    cache.weaponSelect.value)
        /\ passed.weapon = cache.weaponSelect.value
        /\ (history.event = "stage" /\ history.previousSelection = "tsurugi"
               /\ cache.stageSelect.value = "awakened") =>
                  /\ cache.weaponSelect.value = memory.stageWeaponMap["awakened"][1]
                  /\ cache.weaponSelect.value = "tantou"

C16_Witness ==
    /\ fn = "page" /\ readyState = "complete"
    /\ history.event = "stage" /\ history.previousSelection = "tsurugi"
    /\ history.previousStage = "initial"
    /\ cache.stageSelect.value = "awakened"
    /\ cache.weaponSelect.value = "tantou"

C19_SelectionKept ==
    (fn = "page" /\ readyState = "complete" /\ history.event = "stage"
        /\ Includes(memory.stageWeaponMap[cache.stageSelect.value],
                    history.previousSelection)) =>
        /\ cache.weaponSelect.value = history.previousSelection
        /\ cache.injuryInput.value = history.previousInjury
        /\ \/ cache.levelInput.value = history.previousLevel
           \/ /\ passed.rawLevel # passed.level
              /\ cache.levelInput.value = IntToString(passed.level)

C19_Witness ==
    /\ fn = "page" /\ readyState = "complete"
    /\ history.event = "stage"
    /\ history.previousStage = "initial"
    /\ history.previousSelection = "yari"
    /\ cache.stageSelect.value = "awakened"
    /\ cache.weaponSelect.value = "yari"

\* C20: in every state after updateOutputs the phase shown is bloom only
\* when the stage is awakened and the level is one of 100 .. 199; a change
\* of the stage from awakened to initial at a level of 100 or more clamps
\* the level to 99 and the phase shown becomes initial.
C20_BloomOnlyWhenAwakened ==
    (fn = "page" /\ readyState = "complete") =>
        /\ (cache.phaseDisplay = phaseLabels["bloom"] \/ passed.phase = "bloom") =>
               /\ cache.stageSelect.value = "awakened"
               /\ passed.level \in 100..199
        /\ (history.event = "stage" /\ history.previousStage = "awakened"
               /\ cache.stageSelect.value = "initial"
               /\ OrElse(parseInt(history.previousLevel), 1) >= 100) =>
                  /\ passed.level = 99
                  /\ cache.levelInput.value = <<"9", "9">>
                  /\ passed.phase = "initial"
                  /\ cache.phaseDisplay = phaseLabels["initial"]

C20_Witness ==
    /\ fn = "page" /\ readyState = "complete"
    /\ history.event = "stage" /\ history.previousStage = "awakened"
    /\ history.previousLevel = <<"1", "0", "0">>
    /\ cache.stageSelect.value = "initial"
    /\ cache.levelInput.value = <<"9", "9">>
    /\ cache.phaseDisplay = phaseLabels["initial"]

\* C18: whatever calls of determinePhase, calculateRepairSeconds,
\* calculateResourceCost and formatSeconds follow the initialization,
\* weaponCatalog, stageWeaponMap, stageMaxLevels and precomputedResourceBases
\* stay as the initialization left them, and every call of
\* calculateResourceCost returns an object of its own: not one of the table,
\* and not one an earlier call returned.
C18_NoSharedStateMutated ==
    (readyState = "listening" /\ cache = None) =>
        /\ memory.weaponCatalog = weaponCatalog
        /\ memory.stageWeaponMap = stageWeaponMap
        /\ memory.stageMaxLevels = stageMaxLevels
        /\ memory.precomputedResourceBases = precomputedResourceBases
        /\ \A i \in 1..Len(history) :
               /\ DOMAIN history[i] = {"allocated"}
               /\ history[i].allocated \in 1..Len(memory.objects)
               /\ \A j \in 1..(i - 1) : history[j] # history[i]
        /\ fn = "calculateResourceCost" =>
               /\ result = history[Len(history)]
               /\ memory.objects[result.allocated]
                      = calculateResourceCost(argWeapon, argLostHp, argCoefficient2)

C18_Witness ==
    /\ readyState = "listening" /\ cache = None
    /\ fn = "calculateResourceCost"
    /\ Len(history) = 3
    /\ argWeapon = "ootachi" /\ argLostHp = 10
    /\ memory.objects[1] = memory.objects[3]
    /\ memory.objects[3].charcoal = 70

====
